---------------------------- MODULE Spec2Model ----------------------------
(***************************************************************************)
(* Model of video_watermark.py: main() walks the sorted video files of the *)
(* input folder and process_one_video() probes each file, plans the 9:16   *)
(* padding, transforms the watermark into a temporary PNG, resolves the    *)
(* overlay position and runs ffmpeg.                                       *)
(*                                                                         *)
(* File names are sequences of character codes, so that sorted(),          *)
(* os.path.splitext() and str.lower() are computed, not assumed.           *)
(* Python floats are modelled by exact integer arithmetic on the inputs    *)
(* drawn here: the jitter is a multiple of 1/8 and the natural watermark   *)
(* sizes are ones for which float evaluation of lines 68, 88, 93, 115,     *)
(* 117 and 120 agrees with the exact quotient on every drawn width; the    *)
(* rotation angles have rational sine and cosine, and the size Pillow      *)
(* gives the rotated image is computed from its corner formula.            *)
(***************************************************************************)
EXTENDS Integers, Sequences, FiniteSets

\* ---------------------------------------------------------------- bounds
\* probed widths are MinDim..MaxW, probed heights MinDim..MaxH, plus the
\* 1080-wide scenarios; at most MaxListing entries in the input folder
MaxW == 8
MaxH == 16
MaxListing == 3
MinDim == 0 - 1

\* ------------------------------------------------- parameters (l. 26-31)
\* fractions are <<numerator, denominator>>
WM_REL_WIDTH == <<1, 4>>
WM_OPACITY == <<1, 10>>
ROTATE_DEG_RANGE == 8
SCALE_VARIATION == <<15, 100>>
MARGIN_X == <<5, 100>>
MARGIN_Y == <<1, 2>>

\* ------------------------------------------------------------ arithmetic
\* int(n/d) of Python for d > 0: truncation toward zero
int_mutant_round(n, d) == (2 * n + d) \div (2 * d)
int(n, d) == IF n >= 0 THEN n \div d ELSE 0 - ((0 - n) \div d)

\* math.ceil(n/d) for d > 0
ceil(n, d) == 0 - ((0 - n) \div d)

max(a, b) == IF a >= b THEN a ELSE b

\* ------------------------------------------------------------ file names
\* os.extsep
extsep == <<46>>
Dot == extsep[1]
mp4 == <<46, 109, 112, 52>>
mov == <<46, 109, 111, 118>>
mkv == <<46, 109, 107, 118>>
avi == <<46, 97, 118, 105>>
webm == <<46, 119, 101, 98, 109>>
mpeg == <<46, 109, 112, 101, 103>>
mpg == <<46, 109, 112, 103>>
flv == <<46, 102, 108, 118>>
\* the suffix "_wm.mp4" of line 183
wm_suffix == <<95, 119, 109>> \o mp4

\* what the input folder may hold: a.mp4, a.mov, b.MP4, c.txt and .mp4
DirEntries ==
    { <<97>> \o mp4, <<97>> \o mov, <<98, 46, 77, 80, 52>>,
      <<99, 46, 116, 120, 116>>, mp4 }

\* str.lower() on ASCII
lower(s) == [i \in 1..Len(s) |-> IF s[i] >= 65 /\ s[i] <= 90 THEN s[i] + 32 ELSE s[i]]

\* os.path.splitext(p) for a name without a directory separator
LastDot(p) == IF \E i \in 1..Len(p) : p[i] = Dot
              THEN CHOOSE i \in 1..Len(p) :
                       p[i] = Dot /\ \A j \in (i+1)..Len(p) : p[j] # Dot
              ELSE 0
splitext(p) ==
    LET dotIndex == LastDot(p) IN
    IF dotIndex > 0 /\ \E k \in 1..(dotIndex - 1) : p[k] # Dot
    THEN <<SubSeq(p, 1, dotIndex - 1), SubSeq(p, dotIndex, Len(p))>>
    ELSE <<p, <<>> >>

is_video_file(fn) ==
    lower(splitext(fn)[2]) \in {mp4, mov, mkv, avi, webm, mpeg, mpg, flv}

\* str < str of Python: lexicographic on code points
RECURSIVE str_less(_, _)
str_less(s, t) ==
    IF t = <<>> THEN FALSE
    ELSE IF s = <<>> THEN TRUE
    ELSE IF Head(s) # Head(t) THEN Head(s) < Head(t)
    ELSE str_less(Tail(s), Tail(t))

\* sorted(names)
RECURSIVE sorted(_)
sorted(S) ==
    IF S = {} THEN <<>>
    ELSE LET m == CHOOSE x \in S : \A y \in S \ {x} : str_less(x, y)
         IN <<m>> \o sorted(S \ {m})

\* line 183
out_fname_of(fname) == splitext(fname)[1] \o wm_suffix


\* ------------------------------------------------------------ environment
\* What ffprobe may answer (lines 46-50): a non-zero exit, an empty stdout,
\* a stdout int() cannot parse, or "<w>x<h>".
ProbeOutput(rc, kind, w, h) == [rc |-> rc, kind |-> kind, w |-> w, h |-> h]
ProbeFailures ==
    { ProbeOutput(1, "empty", 0, 0), ProbeOutput(0, "empty", 0, 0),
      ProbeOutput(0, "text", 0, 0) }
ProbeSizes(D) == { ProbeOutput(0, "size", d[1], d[2]) : d \in D }

\* sizes probed in a batch, and the wider range for one video
BatchDims == { <<0, 4>>, <<4, 3>>, <<1080, 1920>> }
GeomDims ==
    ((MinDim..MaxW) \X (MinDim..MaxH))
        \cup { <<1080, 1920>>, <<1080, 1350>>, <<1080, 1919>> }

\* natural sizes (w0, h0) of the watermark image
WatermarkSizes == { <<400, 100>>, <<2, 3>> }

\* random.uniform(-SCALE_VARIATION, SCALE_VARIATION) in eighths (line 87)
Jitters == { j \in {0 - 1, 0, 1} :
               100 * j >= 0 - 8 * SCALE_VARIATION[1] /\ 100 * j <= 8 * SCALE_VARIATION[1] }

\* random.uniform(-ROTATE_DEG_RANGE, ROTATE_DEG_RANGE) (line 103): 0 degrees
\* and +-asin(15/113) = +-7.63 degrees, as (cos, sin) over a denominator
NoAngle == [cos |-> 1, sin |-> 0, den |-> 1]
Angles ==
    { NoAngle,
      [cos |-> 112, sin |-> 15, den |-> 113],
      [cos |-> 112, sin |-> 0 - 15, den |-> 113] }

\* what ffmpeg may do (lines 54-56): its exit status and whether it left
\* a file at output_path
FfmpegResults == [rc : {0, 1}, output_exists : BOOLEAN]

\* ------------------------------------------------------------- probe_size
\* lines 47-50: RuntimeError on failure, ValueError from int()
probe_raises(out) == out.rc # 0 \/ out.kind = "empty" \/ out.kind # "size"

\* ---------------------------------------------------------------- planning
\* line 68
target_h_of(w) == ceil(w * 16, 9)
\* line 76
pad_top_mutant_ceil(extra) == (extra + 1) \div 2
pad_top_of(extra) == extra \div 2
\* line 119
dest_h_mutant_target(pad, th, h) == th
dest_h_of(pad, th, h) == IF pad THEN th ELSE h

\* --------------------------------------------------------------- transform
\* line 88: vw * WM_REL_WIDTH * (1 + j/8)
target_wm_w_of(w, j) ==
    max(8, int(w * WM_REL_WIDTH[1] * (8 + j), WM_REL_WIDTH[2] * 8))
\* line 93
target_h_wm_of(h0, w0, tw) == max(1, int(h0 * tw, w0))

\* line 104: Image.rotate(angle, expand=True) gives the size
\* ceil(max x) - floor(min x) of the corners turned about the centre
abs(x) == IF x >= 0 THEN x ELSE 0 - x
rotated_extent(a, b, ang) ==
    LET half == ang.cos * a + abs(ang.sin) * b
    IN ceil(ang.den * a + half, 2 * ang.den)
         - ((ang.den * a - half) \div (2 * ang.den))

\* --------------------------------------------------------------- placement
\* line 115
pos_x_left(w) == int(w * MARGIN_X[1], MARGIN_X[2])
\* line 117
pos_x_right(w, ww) ==
    int(w * MARGIN_X[2] - ww * MARGIN_X[2] - w * MARGIN_X[1], MARGIN_X[2])
\* lines 120-122
pos_y_of(dh, wh) ==
    max(0, int(dh * MARGIN_Y[2] - wh * MARGIN_Y[2] - dh * MARGIN_Y[1], MARGIN_Y[2]))

\* lines 126-141
filter_complex_of(pad, w, th, pt, x, y) ==
    IF pad
    THEN [shape |-> "pad", w |-> w, h |-> th, pad_y |-> pt, x |-> x, y |-> y]
    ELSE [shape |-> "overlay", w |-> 0, h |-> 0, pad_y |-> 0, x |-> x, y |-> y]

\* ------------------------------------------------------------------ state
VARIABLES
    listing,        \* names in videos_folder
    wm_size,        \* natural size of the image at watermark_path
    outputs,        \* names in output_folder
    tmpdirs,        \* temporary directories that exist
    pc,             \* where the program is
    files, idx,     \* main: the sorted video files, the loop index
    out_fname,      \* main: the output name of the current file
    vw, vh, target_h, need_pad, pad_top, pad_bottom,
    variation, angle, target_w, target_h_wm, wm_w, wm_h,
    corner, pos_x, pos_y, dest_h, filter_complex,
    log             \* per attempted file: name, steps taken, result

env == <<listing, wm_size>>
plan == <<vw, vh, target_h, need_pad, pad_top, pad_bottom>>
wm == <<variation, angle, target_w, target_h_wm, wm_w, wm_h>>
place == <<corner, pos_x, pos_y, dest_h, filter_complex>>
loop == <<files, idx, out_fname>>
vars == <<env, outputs, tmpdirs, pc, loop, plan, wm, place, log>>

NoLocals ==
    /\ vw = 0 /\ vh = 0 /\ target_h = 0 /\ need_pad = FALSE
    /\ pad_top = 0 /\ pad_bottom = 0
    /\ variation = 0 /\ angle = NoAngle
    /\ target_w = 0 /\ target_h_wm = 0 /\ wm_w = 0 /\ wm_h = 0
    /\ corner = "" /\ pos_x = 0 /\ pos_y = 0 /\ dest_h = 0
    /\ filter_complex = filter_complex_of(FALSE, 0, 0, 0, 0, 0)

InitWith(Listings) ==
    /\ listing \in Listings
    /\ wm_size \in WatermarkSizes
    /\ outputs = {}
    /\ tmpdirs = {}
    /\ pc = "main"
    /\ files = <<>> /\ idx = 0 /\ out_fname = <<>>
    /\ NoLocals
    /\ log = <<>>

Init == InitWith({ S \in SUBSET DirEntries : Cardinality(S) <= MaxListing })
InitOne == InitWith({ S \in SUBSET DirEntries : Cardinality(S) <= 1 })

\* the log entry of the file being processed
Step(name) == [log EXCEPT ![idx].steps = Append(@, name)]
Probed(l, out) == [l EXCEPT ![idx].probe = out]
Result(l, r) == [l EXCEPT ![idx].result = r]

\* process_one_video returns or raises: its locals are gone
Leave ==
    /\ vw' = 0 /\ vh' = 0 /\ target_h' = 0 /\ need_pad' = FALSE
    /\ pad_top' = 0 /\ pad_bottom' = 0
    /\ variation' = 0 /\ angle' = NoAngle
    /\ target_w' = 0 /\ target_h_wm' = 0 /\ wm_w' = 0 /\ wm_h' = 0
    /\ corner' = "" /\ pos_x' = 0 /\ pos_y' = 0 /\ dest_h' = 0
    /\ filter_complex' = filter_complex_of(FALSE, 0, 0, 0, 0, 0)

\* ------------------------------------------------------------------- main
\* line 176
video_files(names) == sorted({ f \in names : is_video_file(f) })

\* lines 176-179
main_list ==
    /\ pc = "main"
    /\ files' = video_files(listing)
    /\ pc' = IF files' = <<>> THEN "exit" ELSE "for"
    /\ UNCHANGED <<env, outputs, tmpdirs, idx, out_fname, plan, wm, place, log>>

\* lines 181-186: the next file, or the end of the loop
for_next ==
    /\ pc = "for"
    /\ \/ /\ idx < Len(files)
          /\ idx' = idx + 1
          /\ out_fname' = out_fname_of(files[idx'])
          /\ log' = Append(log, [fname |-> files[idx'], steps |-> <<>>,
                                 probe |-> ProbeOutput(0, "none", 0, 0),
                                 result |-> "running"])
          /\ pc' = "Probing"
       \/ /\ idx >= Len(files)
          /\ pc' = "exit"
          /\ UNCHANGED <<idx, out_fname, log>>
    /\ UNCHANGED <<env, outputs, tmpdirs, files, plan, wm, place>>

\* lines 63-65: the probe's exception is printed and the function returns
after_probe_error_mutant == "Planning"
after_probe_error == "for"

\* lines 187-188: an exception of process_one_video is printed and the
\* loop goes on
after_exception_mutant_break == "exit"
after_exception == "for"

\* line 80, leaving the with block: TemporaryDirectory.__exit__
with_exit_mutant_keep(dirs, td) == dirs
with_exit(dirs, td) == dirs \ {td}

\* ------------------------------------------------------ process_one_video
\* lines 60-65
Probing(Outs) ==
    /\ pc = "Probing"
    /\ \E out \in Outs :
         IF probe_raises(out)
         THEN /\ pc' = after_probe_error
              /\ log' = Result(Probed(Step("Probing"), out), "ProbeError")
              /\ UNCHANGED <<vw, vh>>
         ELSE /\ vw' = out.w /\ vh' = out.h
              /\ pc' = "Planning"
              /\ log' = Probed(Step("Probing"), out)
    /\ UNCHANGED <<env, outputs, tmpdirs, loop, target_h, need_pad, pad_top,
                   pad_bottom, wm, place>>

\* lines 67-77
Planning ==
    /\ pc = "Planning"
    /\ target_h' = target_h_of(vw)
    /\ need_pad' = (vh < target_h')
    /\ IF need_pad'
       THEN /\ pad_top' = pad_top_of(target_h' - vh)
            /\ pad_bottom' = (target_h' - vh) - pad_top'
       ELSE pad_top' = 0 /\ pad_bottom' = 0
    /\ pc' = "TempDir"
    /\ log' = Step("Planning")
    /\ UNCHANGED <<env, outputs, tmpdirs, loop, vw, vh, wm, place>>

\* lines 80-81: entering the with block
TempDir ==
    /\ pc = "TempDir"
    /\ tmpdirs' = tmpdirs \cup {idx}
    /\ pc' = "TransformingWatermark"
    /\ log' = Step("TempDir")
    /\ UNCHANGED <<env, outputs, loop, plan, wm, place>>

\* lines 84-110: Image.open raises when the image cannot be decoded, which
\* leaves the with block and reaches main's except
TransformingWatermark ==
    /\ pc = "TransformingWatermark"
    /\ \/ /\ tmpdirs' = with_exit(tmpdirs, idx)
          /\ pc' = after_exception
          /\ log' = Result(Step("TransformingWatermark"), "AssetLoadError")
          /\ Leave
       \/ /\ \E j \in Jitters, ang \in Angles :
               /\ variation' = j /\ angle' = ang
               /\ target_w' = target_wm_w_of(vw, j)
               /\ target_h_wm' = target_h_wm_of(wm_size[2], wm_size[1], target_w')
               /\ wm_w' = rotated_extent(target_w', target_h_wm', ang)
               /\ wm_h' = rotated_extent(target_h_wm', target_w', ang)
          /\ pc' = "Resolving"
          /\ log' = Step("TransformingWatermark")
          /\ UNCHANGED <<tmpdirs, plan, place>>
    /\ UNCHANGED <<env, outputs, loop>>

\* lines 112-141
Resolving ==
    /\ pc = "Resolving"
    /\ corner' \in {"left", "right"}
    /\ pos_x' = IF corner' = "left" THEN pos_x_left(vw) ELSE pos_x_right(vw, wm_w)
    /\ dest_h' = dest_h_of(need_pad, target_h, vh)
    /\ pos_y' = pos_y_of(dest_h', wm_h)
    /\ filter_complex' =
           filter_complex_of(need_pad, vw, target_h, pad_top, pos_x', pos_y')
    /\ pc' = "Rendering"
    /\ log' = Step("Resolving")
    /\ UNCHANGED <<env, outputs, tmpdirs, loop, plan, wm>>

\* lines 144-165: ffmpeg -y writes output_path; a non-zero exit raises in
\* run_ffmpeg, is printed, and the function returns
Rendering ==
    /\ pc = "Rendering"
    /\ \E res \in FfmpegResults :
         /\ outputs' = IF res.output_exists THEN outputs \cup {out_fname}
                       ELSE outputs \ {out_fname}
         /\ IF res.rc # 0
            THEN /\ pc' = "for"
                 /\ log' = Result(Step("Rendering"), "RenderError")
                 /\ Leave
            ELSE /\ pc' = "Done"
                 /\ log' = Step("Rendering")
                 /\ UNCHANGED <<plan, wm, place>>
    /\ tmpdirs' = with_exit(tmpdirs, idx)
    /\ UNCHANGED <<env, loop>>

\* line 167
Done ==
    /\ pc = "Done"
    /\ pc' = "for"
    /\ log' = Result(Step("Done"), "Done")
    /\ Leave
    /\ UNCHANGED <<env, outputs, tmpdirs, loop>>

ProcessOneVideo(Outs) ==
    \/ Probing(Outs)
    \/ Planning
    \/ TempDir
    \/ TransformingWatermark
    \/ Resolving
    \/ Rendering
    \/ Done

Next == main_list \/ for_next \/ ProcessOneVideo(ProbeFailures \cup ProbeSizes(BatchDims))
NextOne == main_list \/ for_next \/ ProcessOneVideo(ProbeFailures \cup ProbeSizes(GeomDims))

Spec == Init /\ [][Next]_vars
\* the batch with every step eventually taken: each external program returns
FairSpec == Init /\ [][Next]_vars /\ WF_vars(Next)
\* one video, over the wider range of probed sizes
SpecOne == InitOne /\ [][NextOne]_vars

\* ----------------------------------------------------------------- claims
\* the plan of the current video has been computed
Planned == pc \in {"TempDir", "TransformingWatermark", "Resolving", "Rendering", "Done"}
\* its overlay position has been computed
Resolved == pc \in {"Rendering", "Done"}
\* the video files of the folder, and how many of them sort before f
Videos == { f \in listing : is_video_file(f) }
Before(f) == { g \in Videos : str_less(g, f) }

\* q is n/d (d > 0) cut toward zero
IsTrunc(q, n, d) ==
    \/ n >= 0 /\ d * q <= n /\ n < d * (q + 1)
    \/ n < 0 /\ d * q >= n /\ n > d * (q - 1)
\* r is the larger of lo and n/d cut toward zero
IsMaxTrunc(r, lo, n, d) ==
    /\ r >= lo
    /\ r > lo => IsTrunc(r, n, d)
    /\ r = lo => n < d * (lo + 1)
\* q is an integer nearest to n/d (d > 0)
IsNearest(q, n, d) == 2 * abs(d * q - n) <= d
IsMaxNearest(r, lo, n, d) ==
    /\ r >= lo
    /\ r > lo => IsNearest(r, n, d)
    /\ r = lo => 2 * n <= d * (2 * lo + 1)

\* C1: when a video of positive size is less tall than 9:16 requires
\* (9*vh < 16*vw), the two pads add up exactly to ceil(vw*16/9) - vh, and
\* the top pad is the bottom pad or one less.
C1_PaddingSplit ==
    (Planned /\ vw > 0 /\ vh > 0 /\ 9 * vh < 16 * vw) =>
        LET T == vh + pad_top + pad_bottom IN
        /\ pad_top >= 0 /\ pad_bottom >= 0
        /\ 9 * T >= 16 * vw /\ 9 * (T - 1) < 16 * vw
        /\ (pad_top = pad_bottom \/ pad_top = pad_bottom - 1)
\* a 4x3 video: 5 rows are missing, 2 go on top and 3 below
C1_Witness == Planned /\ vw = 4 /\ vh = 3 /\ pad_top = 2 /\ pad_bottom = 3

\* C2: when a video of positive width is at least as tall as 9:16 requires
\* (9*vh >= 16*vw), both pads are 0, and the height used for the vertical
\* placement is the source height and the filter graph has no pad stage.
C2_NoPadding ==
    (Planned /\ vw > 0 /\ 9 * vh >= 16 * vw) =>
        /\ pad_top = 0 /\ pad_bottom = 0 /\ ~need_pad
        /\ Resolved =>
             /\ dest_h = vh
             /\ filter_complex.shape = "overlay"
             /\ IsMaxTrunc(pos_y, 0, vh - 2 * wm_h, 2)
\* a 4x9 video is taller than the 4x8 that 9:16 asks for and is not cropped
C2_Witness ==
    /\ Resolved /\ vw = 4 /\ vh = 9 /\ target_h = 8
    /\ dest_h = 9 /\ filter_complex.shape = "overlay"

\* C3: a video whose probed width or height is not positive gets no
\* watermark transform, placement or render step.
C3_DimensionError == Planned => (vw > 0 /\ vh > 0)

\* C4: for a video of positive size the overlay position handed to ffmpeg
\* has x >= 0 and y >= 0, whichever corner was drawn.
C4_PlacementNonNegative ==
    (Resolved /\ vw > 0 /\ vh > 0) => (pos_x >= 0 /\ pos_y >= 0)

BatchOrder ==
    /\ Len(log) = idx
    /\ \A i \in 1..Len(log) :
         log[i].fname \in Videos /\ Cardinality(Before(log[i].fname)) = i - 1
    /\ pc = "exit" =>
         /\ Len(log) = Cardinality(Videos)
         /\ \A i \in 1..Len(log) : log[i].result # "running"
C6_BatchIsolation == [](BatchOrder) /\ <>(pc = "exit")
\* three files, the first with an unreadable header: the other two succeed
C6_Witness ==
    /\ pc = "exit" /\ Len(log) = 3
    /\ log[1].result = "ProbeError"
    /\ log[2].result = "Done" /\ log[3].result = "Done"

\* C7: a file whose probe exits non-zero or prints nothing goes from
\* Probing straight to its failure: no planning, no temporary directory,
\* no transform, no placement, no ffmpeg run.
C7_ProbeFailureShortCircuits ==
    \A i \in 1..Len(log) :
        (log[i].probe.rc # 0 \/ log[i].probe.kind = "empty") =>
            /\ log[i].steps = <<"Probing">>
            /\ log[i].result = "ProbeError"
            /\ i = idx => (pc \in {"for", "exit"} /\ tmpdirs = {})
C7_Witness ==
    /\ pc = "for" /\ idx = 1 /\ Len(files) > 1
    /\ log[1].probe = ProbeOutput(0, "empty", 0, 0)
    /\ log[1].result = "ProbeError"

\* C8: a video of positive size is reported Done only if a file exists at
\* its output path after the ffmpeg run.
C8_DoneHasOutput == (pc = "Done" /\ vw > 0 /\ vh > 0) => out_fname \in outputs

\* C9: distinct queued files have distinct output names.
C9_DistinctOutputs ==
    \A i, j \in 1..Len(files) :
        i # j => out_fname_of(files[i]) # out_fname_of(files[j])

\* C10: at most one temporary directory exists, it is that of the video
\* being transformed, placed or rendered, and none exists between videos,
\* after the last one, or once a video's processing has ended.
C10_ScopedTempDir ==
    /\ Cardinality(tmpdirs) <= 1
    /\ tmpdirs \subseteq {idx}
    /\ pc \notin {"TransformingWatermark", "Resolving", "Rendering"} => tmpdirs = {}
\* a render failure: the directory was made and is gone before the next file
C10_Witness ==
    /\ pc = "for" /\ idx >= 1 /\ idx < Len(files)
    /\ log[idx].result = "RenderError"
    /\ \E k \in 1..Len(log[idx].steps) : log[idx].steps[k] = "TempDir"
    /\ tmpdirs = {}

=============================================================================
